---- MODULE Spec2Model ----
(***************************************************************************)
(* Movieglitch: one run of movie_agent.py (check_reddit, then check_rss),  *)
(* and a sequence of scheduled runs, as a state machine.                   *)
(*                                                                         *)
(* Time is counted in whole seconds.  Text (titles, oracle responses) is a *)
(* sequence of one-character strings, so that lower(), upper(), strip()    *)
(* and the substring test `in` are computed and not assumed.               *)
(***************************************************************************)
EXTENDS Integers, Sequences, FiniteSets, TLC

VARIABLES
    webhook,      \* WEBHOOK_URL is set
    apiKey,       \* GEMINI_API_KEY is set
    now,          \* datetime.now(timezone.utc), in seconds
    run,          \* number of the current invocation by the scheduler
    pc,           \* position of the main block
    posts,        \* check_reddit's local: response.json()['data']['children']
    ri,           \* check_reddit's local: how many posts the for loop has taken
    entries,      \* check_rss: feed.entries[:5]
    si,           \* check_rss: how many entries the for loop has taken
    redditErr,    \* what check_reddit's except clause printed ("none" if nothing)
    rssErr,       \* what check_rss's except clause printed ("none" if nothing)
    consulted,    \* history: every call of a relevance classifier
    posted,       \* history: every requests.post to the webhook
    tracked       \* created_utc of the post upstream keeps in its feed (scheduled runs)

vars == <<webhook, apiKey, now, run, pc, posts, ri, entries, si,
          redditErr, rssErr, consulted, posted, tracked>>

----------------------------------------------------------------------------
(* Program constants *)

TIME_WINDOW_MINUTES == 5

SECONDS_PER_MINUTE == 60

RSS_ENTRY_LIMIT == 5

(* Bounds of the model *)

MaxPosts == 2

MaxEntries == 2

MaxRuns == 3

----------------------------------------------------------------------------
(* Text *)

UPPERCASE == <<"A","B","C","D","E","F","G","H","I","J","K","L","M",
               "N","O","P","Q","R","S","T","U","V","W","X","Y","Z">>

LOWERCASE == <<"a","b","c","d","e","f","g","h","i","j","k","l","m",
               "n","o","p","q","r","s","t","u","v","w","x","y","z">>

WHITESPACE == {" ", "\n", "\t"}

LowerChar(c) ==
    IF \E k \in 1..26 : UPPERCASE[k] = c
    THEN LOWERCASE[CHOOSE k \in 1..26 : UPPERCASE[k] = c]
    ELSE c

UpperChar(c) ==
    IF \E k \in 1..26 : LOWERCASE[k] = c
    THEN UPPERCASE[CHOOSE k \in 1..26 : LOWERCASE[k] = c]
    ELSE c

\* str.lower()
lower(s) == [k \in 1..Len(s) |-> LowerChar(s[k])]

\* str.upper()
upper(s) == [k \in 1..Len(s) |-> UpperChar(s[k])]

\* str.strip(): leading and trailing whitespace removed
strip(s) ==
    LET inner == {k \in 1..Len(s) : s[k] \notin WHITESPACE}
    IN  IF inner = {} THEN <<>>
        ELSE LET first == CHOOSE k \in inner : \A m \in inner : k <= m
                 last  == CHOOSE k \in inner : \A m \in inner : m <= k
             IN  SubSeq(s, first, last)

\* sub in s
Contains(s, sub) ==
    \E k \in 0..(Len(s) - Len(sub)) : SubSeq(s, k + 1, k + Len(sub)) = sub

YES == <<"Y","E","S">>

NO == <<"N","O">>

triggers == << <<"g","l","i","t","c","h">>,
               <<"p","r","i","c","e"," ","e","r","r","o","r">>,
               <<"m","i","s","t","a","k","e">> >>

\* any(w in title.lower() for w in triggers)
keyword_match(title) ==
    \E k \in 1..Len(triggers) : Contains(lower(title), triggers[k])

----------------------------------------------------------------------------
(* What the outside world can hand to the program *)

\* model.generate_content(prompt): raises, or returns a response with text
OracleOutcomes ==
    { [raises |-> TRUE,  text |-> <<>>],
      [raises |-> FALSE, text |-> <<" ","Y","e","s",".","\n">>],
      [raises |-> FALSE, text |-> <<"N","O">>],
      [raises |-> FALSE, text |-> <<"M","A","Y","B","E">>] }

\* requests.post(WEBHOOK_URL, json=data): returns a response (whatever its
\* status, which is never looked at), or raises
PostOutcomes == {"returns", "raises"}

\* requests.get + raise_for_status + json() + ['data']['children']
GetOutcomes == {"ok", "ConnectionError", "HTTPError", "JSONDecodeError", "KeyError"}

\* feedparser.parse(url)
ParseOutcomes == {"ok", "raises"}

T_OOP == <<"O","O","P">>

\* post['data'] records as seen at time t: ages -60 s, 0, exactly the window,
\* one second more than the window, and a record without created_utc
RedditRecords(t) ==
    { [title |-> T_OOP, subreddit |-> "Steelbooks", permalink |-> "/r/1",
       created_utc |-> t + 60],
      [title |-> T_OOP, subreddit |-> "Steelbooks", permalink |-> "/r/2",
       created_utc |-> t],
      [title |-> T_OOP, subreddit |-> "4kbluray", permalink |-> "/r/3",
       created_utc |-> t - TIME_WINDOW_MINUTES * SECONDS_PER_MINUTE],
      [title |-> T_OOP, subreddit |-> "4kbluray", permalink |-> "/r/4",
       created_utc |-> t - TIME_WINDOW_MINUTES * SECONDS_PER_MINUTE - 1],
      [title |-> T_OOP, subreddit |-> "boutiquebluray", permalink |-> "/r/5"] }

T_GLITCH == <<"G","L","I","T","C","H">>

T_PRICE == <<"P","r","i","c","e"," ","E","r","r","o","r","s">>

T_WEEKLY == <<"w","e","e","k","l","y">>

\* time.struct_time of an instant (only the fields mktime reads here)
StructTime(t) == [tm_min |-> t \div SECONDS_PER_MINUTE, tm_sec |-> t % SECONDS_PER_MINUTE]

\* feed entries as seen at time t
RssRecords(t) ==
    { [title |-> T_GLITCH, link |-> "sd/1"],
      [title |-> T_PRICE, link |-> "sd/2", published_parsed |-> StructTime(t - 120)],
      [title |-> T_WEEKLY, link |-> "sd/3", published_parsed |-> StructTime(t)] }

\* the lists of at most n records of S, no record listed twice
RECURSIVE SeqsUpTo(_, _)
SeqsUpTo(S, n) ==
    IF n = 0 THEN {<<>>}
    ELSE LET shorter == SeqsUpTo(S, n - 1)
             longest == {q \in shorter : Len(q) = n - 1}
             fresh(q) == {x \in S : \A k \in 1..Len(q) : q[k] # x}
         IN  shorter \cup UNION {{Append(q, x) : x \in fresh(q)} : q \in longest}

----------------------------------------------------------------------------
(* The program *)

Has(record, key) == key \in DOMAIN record

\* Names bound at module level: the imports and the module's own globals.
GlobalNames ==
    {"requests", "feedparser", "os", "genai", "datetime", "timezone",
     "WEBHOOK_URL", "GEMINI_API_KEY", "USER_AGENT", "TIME_WINDOW_MINUTES",
     "REDDIT_URL", "SLICKDEALS_RSS", "model"}

\* Classes of the exceptions the run can raise; all derive from Exception.
ExceptionSubclasses ==
    {"ConnectionError", "HTTPError", "JSONDecodeError", "KeyError",
     "NameError", "AttributeError", "ParseError"}

RequestExceptions == {"ConnectionError", "HTTPError", "JSONDecodeError"}

except_RequestException(exc) == exc \in RequestExceptions

\* `except Exception as e`: does the clause catch an exception of class exc
except_Exception(exc) == exc \in ExceptionSubclasses

\* minutes_ago <= TIME_WINDOW_MINUTES, for an instant t in seconds:
\* (now - t).total_seconds() / 60 <= 5
is_fresh(t) == now - t <= TIME_WINDOW_MINUTES * SECONDS_PER_MINUTE

\* time.mktime(struct_time)
mktime(st) == st.tm_min * SECONDS_PER_MINUTE + st.tm_sec

\* analyze_profit_potential(title, subreddit), oracle being what
\* model.generate_content does if it is called
analyze_profit_potential(title, subreddit, oracle) ==
    IF ~apiKey THEN TRUE
    ELSE IF oracle.raises THEN TRUE
    ELSE Contains(upper(strip(oracle.text)), YES)

\* the json body send_discord_alert builds
alert_payload(source, title, link, is_verified) ==
    [emoji |-> IF is_verified THEN "robot" ELSE "moneybag",
     title |-> title, link |-> link]

\* send_discord_alert(source, title, link, is_verified), net being what
\* requests.post does if it is called: the POSTs made and the exception raised
send_discord_alert(source, title, link, is_verified, net) ==
    IF ~webhook THEN [exc |-> "none", out |-> <<>>]
    ELSE [exc |-> IF net = "raises" THEN "ConnectionError" ELSE "none",
          out |-> << [payload |-> alert_payload(source, title, link, is_verified),
                      delivered |-> net = "returns"] >>]

\* One turn of check_reddit's for loop on post['data'] = data: the exception it
\* raises, the classifier calls it makes and the POSTs it makes.
process_post(data, oracle, net) ==
    IF ~Has(data, "created_utc")
    THEN [exc |-> "KeyError", at |-> "record", asked |-> <<>>, out |-> <<>>]
    ELSE IF ~is_fresh(data.created_utc)
    THEN [exc |-> "none", at |-> "none", asked |-> <<>>, out |-> <<>>]
    ELSE IF ~(Has(data, "title") /\ Has(data, "subreddit"))
    THEN [exc |-> "KeyError", at |-> "record", asked |-> <<>>, out |-> <<>>]
    ELSE LET is_profitable ==
                 analyze_profit_potential(data.title, data.subreddit, oracle)
             asked == << [strategy |-> "oracle", called |-> apiKey,
                          raises |-> apiKey /\ oracle.raises,
                          text |-> IF apiKey /\ ~oracle.raises
                                   THEN oracle.text ELSE <<>>,
                          result |-> is_profitable] >>
         IN  IF ~is_profitable
             THEN [exc |-> "none", at |-> "none", asked |-> asked, out |-> <<>>]
             ELSE IF ~Has(data, "permalink")
             THEN [exc |-> "KeyError", at |-> "record", asked |-> asked, out |-> <<>>]
             ELSE LET sent == send_discord_alert(<<"r/", data.subreddit>>, data.title,
                                  <<"https://www.reddit.com", data.permalink>>,
                                  TRUE, net)
                  IN  [exc |-> sent.exc,
                       at |-> IF sent.exc = "none" THEN "none" ELSE "post",
                       asked |-> asked, out |-> sent.out]

\* The same loop turn with the timestamp test of the earlier copy of the
\* script dropped for entries without a publish time.
process_entry_untimed(entry, net) ==
    IF ~(Has(entry, "title") /\ Has(entry, "link"))
    THEN [exc |-> "AttributeError", at |-> "record", asked |-> <<>>, out |-> <<>>]
    ELSE IF Has(entry, "published_parsed")
    THEN [exc |-> "NameError", at |-> "record", asked |-> <<>>, out |-> <<>>]
    ELSE LET hit == keyword_match(entry.title)
             asked == << [strategy |-> "keyword", called |-> FALSE, raises |-> FALSE,
                          text |-> <<>>, result |-> hit] >>
             sent == send_discord_alert("Slickdeals", entry.title, entry.link, FALSE, net)
         IN  IF hit
             THEN [exc |-> sent.exc,
                   at |-> IF sent.exc = "none" THEN "none" ELSE "post",
                   asked |-> asked, out |-> sent.out]
             ELSE [exc |-> "none", at |-> "none", asked |-> asked, out |-> <<>>]

\* One turn of check_rss's for loop on one entry.
process_entry(entry, net) ==
    IF ~(Has(entry, "title") /\ Has(entry, "link"))
    THEN [exc |-> "AttributeError", at |-> "record", asked |-> <<>>, out |-> <<>>]
    ELSE IF Has(entry, "published_parsed")
    THEN IF "time" \notin GlobalNames
         THEN [exc |-> "NameError", at |-> "record", asked |-> <<>>, out |-> <<>>]
         ELSE IF ~is_fresh(mktime(entry.published_parsed))
         THEN [exc |-> "none", at |-> "none", asked |-> <<>>, out |-> <<>>]
         ELSE LET hit == keyword_match(entry.title)
                  asked == << [strategy |-> "keyword", called |-> FALSE,
                               raises |-> FALSE, text |-> <<>>, result |-> hit] >>
                  sent == send_discord_alert("Slickdeals", entry.title, entry.link,
                                             FALSE, net)
              IN  IF hit
                  THEN [exc |-> sent.exc,
                        at |-> IF sent.exc = "none" THEN "none" ELSE "post",
                        asked |-> asked, out |-> sent.out]
                  ELSE [exc |-> "none", at |-> "none", asked |-> asked, out |-> <<>>]
    ELSE [exc |-> "none", at |-> "none", asked |-> <<>>, out |-> <<>>]

\* history records of one loop turn
Tagged(src, k, recs) ==
    [j \in 1..Len(recs) |-> [run |-> run, src |-> src, idx |-> k, rec |-> recs[j]]]

NoError == [at |-> "none", exc |-> "none"]

----------------------------------------------------------------------------
(* State machine *)

Init ==
    /\ webhook \in BOOLEAN
    /\ apiKey \in BOOLEAN
    /\ now = 0
    /\ run = 0
    /\ pc = "reddit_get"
    /\ posts = <<>>
    /\ ri = 0
    /\ entries = <<>>
    /\ si = 0
    /\ redditErr = NoError
    /\ rssErr = NoError
    /\ consulted = <<>>
    /\ posted = <<>>
    /\ tracked = 0

\* check_reddit up to the for loop: the GET, raise_for_status, json() and the
\* path to the list of children
check_reddit_get_with(outcome, feed) ==
    /\ pc = "reddit_get"
    /\ IF outcome = "ok"
       THEN /\ posts' = feed
            /\ pc' = "reddit_loop"
            /\ UNCHANGED redditErr
       ELSE /\ posts' = <<>>
            /\ IF except_Exception(outcome)
               THEN /\ redditErr' = [at |-> "get", exc |-> outcome]
                    /\ pc' = "rss_parse"
               ELSE /\ pc' = "crashed"
                    /\ UNCHANGED redditErr
    /\ ri' = 0
    /\ UNCHANGED <<webhook, apiKey, now, run, entries, si, rssErr,
                   consulted, posted, tracked>>

check_reddit_get ==
    \E outcome \in GetOutcomes, feed \in SeqsUpTo(RedditRecords(now), MaxPosts) :
        check_reddit_get_with(outcome, feed)

\* one turn of check_reddit's for loop
check_reddit_loop ==
    /\ pc = "reddit_loop"
    /\ ri < Len(posts)
    /\ \E oracle \in OracleOutcomes, net \in PostOutcomes :
         LET k == ri + 1
             r == process_post(posts[k], oracle, net)
         IN  /\ ri' = k
             /\ consulted' = consulted \o Tagged("reddit", k, r.asked)
             /\ posted' = posted \o Tagged("reddit", k, r.out)
             /\ IF r.exc = "none"
                THEN UNCHANGED <<pc, redditErr>>
                ELSE IF except_Exception(r.exc)
                THEN /\ redditErr' = [at |-> r.at, exc |-> r.exc]
                     /\ pc' = "rss_parse"
                ELSE /\ pc' = "crashed"
                     /\ UNCHANGED redditErr
    /\ UNCHANGED <<webhook, apiKey, now, run, posts, entries, si, rssErr, tracked>>

\* the for loop is exhausted: check_reddit returns
check_reddit_return ==
    /\ pc = "reddit_loop"
    /\ ri = Len(posts)
    /\ pc' = "rss_parse"
    /\ UNCHANGED <<webhook, apiKey, now, run, posts, ri, entries, si,
                   redditErr, rssErr, consulted, posted, tracked>>

Min(a, b) == IF a <= b THEN a ELSE b

\* the feeds upstream can serve: every short feed, and one longer than the
\* slice check_rss takes
RssFeeds(t) ==
    SeqsUpTo(RssRecords(t), MaxEntries)
        \cup {[k \in 1..(RSS_ENTRY_LIMIT + 1) |-> [title |-> T_GLITCH, link |-> "sd/1"]]}

\* check_rss up to the for loop: feedparser.parse and feed.entries[:5]
\* (check_reddit has returned: its locals are gone)
check_rss_parse_with(outcome, feed) ==
    /\ pc = "rss_parse"
    /\ IF outcome = "ok"
       THEN /\ entries' = SubSeq(feed, 1, Min(Len(feed), RSS_ENTRY_LIMIT))
            /\ pc' = "rss_loop"
            /\ UNCHANGED rssErr
       ELSE /\ entries' = <<>>
            /\ IF except_Exception("ParseError")
               THEN /\ rssErr' = [at |-> "parse", exc |-> "ParseError"]
                    /\ pc' = "done"
               ELSE /\ pc' = "crashed"
                    /\ UNCHANGED rssErr
    /\ si' = 0
    /\ posts' = <<>>
    /\ ri' = 0
    /\ UNCHANGED <<webhook, apiKey, now, run, redditErr, consulted, posted, tracked>>

check_rss_parse ==
    \E outcome \in ParseOutcomes, feed \in RssFeeds(now) :
        check_rss_parse_with(outcome, feed)

\* one turn of check_rss's for loop
check_rss_loop ==
    /\ pc = "rss_loop"
    /\ si < Len(entries)
    /\ \E net \in PostOutcomes :
         LET k == si + 1
             r == process_entry(entries[k], net)
         IN  /\ si' = k
             /\ consulted' = consulted \o Tagged("rss", k, r.asked)
             /\ posted' = posted \o Tagged("rss", k, r.out)
             /\ IF r.exc = "none"
                THEN UNCHANGED <<pc, rssErr>>
                ELSE IF except_Exception(r.exc)
                THEN /\ rssErr' = [at |-> r.at, exc |-> r.exc]
                     /\ pc' = "done"
                ELSE /\ pc' = "crashed"
                     /\ UNCHANGED rssErr
    /\ UNCHANGED <<webhook, apiKey, now, run, posts, ri, entries, redditErr, tracked>>

\* the for loop is exhausted: check_rss returns and the main block ends
check_rss_return ==
    /\ pc = "rss_loop"
    /\ si = Len(entries)
    /\ pc' = "done"
    /\ UNCHANGED <<webhook, apiKey, now, run, posts, ri, entries, si,
                   redditErr, rssErr, consulted, posted, tracked>>

Next ==
    \/ check_reddit_get
    \/ check_reddit_loop
    \/ check_reddit_return
    \/ check_rss_parse
    \/ check_rss_loop
    \/ check_rss_return

Spec == Init /\ [][Next]_vars

\* Every call the run makes returns or raises, so the main block keeps going.
FairSpec == Init /\ [][Next]_vars /\ WF_vars(Next)

----------------------------------------------------------------------------
(* Scheduled runs: the scheduler starts the script again one window after   *)
(* the previous start; upstream lists one post from its creation onwards.   *)

TrackedTimes ==
    {(m * TIME_WINDOW_MINUTES * SECONDS_PER_MINUTE) \div 2 : m \in (-2)..(2 * MaxRuns - 2)}
        \cup {-1, 1}

\* the feed upstream serves at time t
Upstream(t) ==
    IF tracked <= t
    THEN << [title |-> T_OOP, subreddit |-> "Steelbooks", permalink |-> "/r/9",
             created_utc |-> tracked] >>
    ELSE <<>>

InitRuns ==
    /\ webhook \in BOOLEAN
    /\ apiKey \in BOOLEAN
    /\ now = 0
    /\ run = 0
    /\ pc = "reddit_get"
    /\ posts = <<>>
    /\ ri = 0
    /\ entries = <<>>
    /\ si = 0
    /\ redditErr = NoError
    /\ rssErr = NoError
    /\ consulted = <<>>
    /\ posted = <<>>
    /\ tracked \in TrackedTimes

scheduled_reddit_get == check_reddit_get_with("ok", Upstream(now))

scheduled_rss_parse == check_rss_parse_with("ok", <<>>)

\* the next invocation: a new process, TIME_WINDOW_MINUTES after the last one
schedule ==
    /\ pc = "done"
    /\ run + 1 < MaxRuns
    /\ run' = run + 1
    /\ now' = now + TIME_WINDOW_MINUTES * SECONDS_PER_MINUTE
    /\ pc' = "reddit_get"
    /\ posts' = <<>>
    /\ ri' = 0
    /\ entries' = <<>>
    /\ si' = 0
    /\ redditErr' = NoError
    /\ rssErr' = NoError
    /\ UNCHANGED <<webhook, apiKey, consulted, posted, tracked>>

NextRuns ==
    \/ scheduled_reddit_get
    \/ check_reddit_loop
    \/ check_reddit_return
    \/ scheduled_rss_parse
    \/ check_rss_return
    \/ schedule

SpecRuns == InitRuns /\ [][NextRuns]_vars

----------------------------------------------------------------------------
(* Claims *)

Calls(src, k) ==
    {j \in 1..Len(consulted) :
        consulted[j].run = run /\ consulted[j].src = src /\ consulted[j].idx = k}

Posts(src, k) ==
    {j \in 1..Len(posted) :
        posted[j].run = run /\ posted[j].src = src /\ posted[j].idx = k}

Affirmative(c) == c.called /\ ~c.raises /\ Contains(upper(strip(c.text)), YES)

Negative(c) == c.called /\ ~c.raises /\ Contains(upper(strip(c.text)), NO)

\* an RSS entry that carries a publish time within the window and a trigger word
Qualifies(e) ==
    /\ Has(e, "published_parsed")
    /\ is_fresh(mktime(e.published_parsed))
    /\ keyword_match(e.title)

\* C1: the oracle strategy answers True whenever the oracle gives no usable
\* verdict: no API key, the call raises, or the response holds neither an
\* affirmative nor a negative token.
C1_FailOpen ==
    \A j \in 1..Len(consulted) :
        LET c == consulted[j].rec
        IN  (c.strategy = "oracle" /\ ~Affirmative(c) /\ ~Negative(c)) => c.result

\* C2: a POST that raises is not raised out of send_discord_alert, is not
\* retried, and the posts after it in the feed are still taken by the loop.
C2_DeliveryFailureContained ==
    \A j \in 1..Len(posted) :
        (posted[j].src = "reddit" /\ ~posted[j].rec.delivered) =>
            /\ redditErr.at # "post"
            /\ Cardinality(Posts("reddit", posted[j].idx)) = 1
            /\ (pc = "rss_parse" => ri = Len(posts))

\* C3: over runs one window apart, a post of the covered period that upstream
\* keeps listing passes the time-window test in exactly one run.
C3_FreshInExactlyOneRun ==
    (pc = "done" /\ run = MaxRuns - 1
        /\ tracked >= 0 - TIME_WINDOW_MINUTES * SECONDS_PER_MINUTE
        /\ tracked <= now) =>
        Cardinality({r \in 0..(MaxRuns - 1) :
            \E j \in 1..Len(consulted) :
                consulted[j].src = "reddit" /\ consulted[j].run = r}) = 1

\* C4: when the fetch of the first source raises, the second source is still
\* processed and every qualifying entry it returned is notified.
C4_SourceIsolation ==
    (pc = "done" /\ redditErr.at = "get" /\ webhook /\ rssErr.at # "parse"
        /\ \A j \in 1..Len(posted) : posted[j].rec.delivered) =>
        \A k \in 1..Len(entries) :
            Qualifies(entries[k]) =>
                \E j \in Posts("rss", k) : posted[j].rec.delivered

\* C5: an item with a timestamp that the loop has taken is handed to the
\* relevance classifier if and only if its age is at most the window, and an
\* older one is never sent; this for both sources.
C5_FreshnessBoundary ==
    /\ \A k \in 1..ri :
         Has(posts[k], "created_utc") =>
            /\ (Calls("reddit", k) # {}) <=> is_fresh(posts[k].created_utc)
            /\ ~is_fresh(posts[k].created_utc) => Posts("reddit", k) = {}
    /\ \A k \in 1..si :
         Has(entries[k], "published_parsed") =>
            /\ (Calls("rss", k) # {}) <=> is_fresh(mktime(entries[k].published_parsed))
            /\ ~is_fresh(mktime(entries[k].published_parsed)) => Posts("rss", k) = {}

\* C6: with a webhook set and delivery succeeding, each of the first five
\* entries with a publish time inside the window and a trigger word in its
\* lower-cased title gets exactly one notification with its title and link.
C6_RssQualifyingForwarded ==
    (pc = "done" /\ webhook /\ rssErr.at # "parse"
        /\ \A j \in 1..Len(posted) : posted[j].src = "rss" => posted[j].rec.delivered) =>
        \A k \in 1..Len(entries) :
            Qualifies(entries[k]) =>
                /\ Cardinality(Posts("rss", k)) = 1
                /\ \A j \in Posts("rss", k) :
                     /\ posted[j].rec.payload.title = entries[k].title
                     /\ posted[j].rec.payload.link = entries[k].link

\* C7: when the search-API source fails (the request, the status, the body or
\* one record of the list), no notification is sent for any of its items.
C7_FetchErrorZeroItems ==
    redditErr.at \in {"get", "record"} =>
        \A j \in 1..Len(posted) :
            ~(posted[j].src = "reddit" /\ posted[j].rec.delivered)

\* C8: whatever fails (fetch, classifier, delivery), the run reaches its end
\* and no exception leaves check_reddit or check_rss.
C8_RunTerminates == <>(pc = "done")

C8_Witness ==
    /\ pc = "done"
    /\ redditErr.at = "post"
    /\ rssErr.at # "none"
    /\ \E j \in 1..Len(consulted) : consulted[j].rec.raises
    /\ \E j \in 1..Len(posted) : ~posted[j].rec.delivered

\* C9: an RSS entry without published_parsed never leads to a POST, whatever
\* its title and whatever else the feed holds.
C9_NoTimestampNeverNotified ==
    \A j \in 1..Len(posted) :
        posted[j].src = "rss" => Has(entries[posted[j].idx], "published_parsed")

C9_Witness ==
    /\ pc = "done"
    /\ webhook
    /\ Len(entries) >= 2
    /\ \E k \in 1..si :
         /\ ~Has(entries[k], "published_parsed")
         /\ keyword_match(entries[k].title)
    /\ \E k \in 1..Len(entries) : Has(entries[k], "published_parsed")

\* C10: a notification carries the verified symbol only if the oracle was
\* called on the item and answered affirmatively.
C10_VerifiedMeansOracleSaidYes ==
    \A j \in 1..Len(posted) :
        posted[j].rec.payload.emoji = "robot" =>
            \E i \in 1..Len(consulted) :
                /\ consulted[i].run = posted[j].run
                /\ consulted[i].src = posted[j].src
                /\ consulted[i].idx = posted[j].idx
                /\ Affirmative(consulted[i].rec)

====
